---- MODULE Spec2Model ----
(***************************************************************************)
(* Model of the deployment workflow of deploy.d/demo-deploy.py: main()     *)
(* validates the flags, PythonDeployer.run() sequences the stages, every   *)
(* stage issues its collaborator commands through run_command().           *)
(*                                                                         *)
(* One action per stage method.  The result of every collaborator command  *)
(* (its return code, an exception raised by subprocess.run, or a user      *)
(* interruption while the call blocks), of every file creation and of      *)
(* every look into the project directory (exists, glob) is an input of the *)
(* action, drawn where the code makes the call.  No artifact is looked up  *)
(* twice in one run.  INFO progress lines are not recorded in the log.     *)
(* A user interruption is delivered where the process blocks: inside       *)
(* subprocess.run and time.sleep.  exit_status is -1 while the process     *)
(* runs; escaped is the exception that has left run() or main().           *)
(***************************************************************************)
EXTENDS Integers, Sequences, FiniteSets, TLC

VARIABLES args, found, pc, stages, results, cmds, logs, created,
          summary_count, exit_status, escaped,
          \* for the comparison of two invocations (RunAgain): which
          \* invocation this is, and what the first one did
          pass, first

vars == <<args, found, pc, stages, results, cmds, logs, created,
          summary_count, exit_status, escaped, pass, first>>

\* ---------------------------------------------------------------- bounds
\* collaborators return a status in 0..MaxReturnCode
MaxReturnCode == 1
\* at most this many test directories / test files are in the project
MaxTestArtifacts == 1

\* ------------------------------------------------------------- constants
\* argparse's parser.error() leaves the process with status 2
ArgparseErrorStatus == 2
\* every sys.exit(1) of PythonDeployer.run
SysExitCode == 1

\* ------------------------------------------------------------ data types
Flags == [auto_approve : BOOLEAN, plan_only : BOOLEAN,
          infrastructure_only : BOOLEAN, application_only : BOOLEAN,
          verbose : BOOLEAN]

StageNames == {"check_prerequisites", "setup_python_environment", "run_tests",
               "deploy_infrastructure", "build_docker_image",
               "push_to_registry", "deploy_application", "health_check",
               "display_summary"}

\* what the project directory may hold
TestArtifacts == {"tests", "test", "test_app.py", "app_test.py"}

TestSets == {T \in SUBSET TestArtifacts : Cardinality(T) <= MaxTestArtifacts}

ReturnCodes == 0..MaxReturnCode

\* result of one subprocess.run: it returns a status, raises an exception
\* (the executable cannot be started), or is interrupted by the user
Outcomes == [exc : {"none"}, returncode : ReturnCodes]
            \cup [exc : {"OSError", "KeyboardInterrupt"}, returncode : {0}]

\* result of creating a file artifact: made tells whether the artifact
\* exists afterwards (an error may hit before or after the creation)
FileOutcomes == {[exc |-> "none", made |-> TRUE],
                 [exc |-> "OSError", made |-> FALSE],
                 [exc |-> "OSError", made |-> TRUE]}

\* result of time.sleep
SleepOutcomes == {"none", "KeyboardInterrupt"}

\* Python's hierarchy: KeyboardInterrupt and SystemExit derive from
\* BaseException only, so "except Exception" does not match them
IsException(e) == e \in {"OSError", "Exception"}

LogLine(level, msg) == [level |-> level, msg |-> msg]

\* ------------------------------------------------------------ run_command
run_command(cmd, o) ==
    IF o.exc = "none"
    THEN [returncode |-> o.returncode, logged |-> <<>>, raised |-> "none"]
    ELSE IF IsException(o.exc)
    THEN [returncode |-> 1,
          logged |-> <<LogLine("ERROR", "Failed to run command")>>,
          raised |-> "none"]
    ELSE [returncode |-> 0, logged |-> <<>>, raised |-> o.exc]

\* the test every stage applies to a status: "if returncode != 0"
Failed_above_one(returncode) == returncode > 1
Failed(returncode) == returncode # 0

\* ------------------------------------------- execution context of a stage
\* what a stage has done so far: commands issued, lines logged, artifacts
\* made, the status of its last command, the exception in flight
ctx0 == [issued |-> <<>>, logged |-> <<>>, made |-> {}, seen |-> {},
         returncode |-> 0, raised |-> "none"]

\* Path.exists() / glob(): the artifacts of F were found in the project
Seen(c, F) == [c EXCEPT !.seen = @ \cup F]

Call(stage, c, cmd, o) ==
    LET r == run_command(cmd, o)
    IN  [c EXCEPT !.issued = Append(@, [stage |-> stage, argv |-> cmd,
                                        outcome |-> o]),
                  !.logged = @ \o r.logged,
                  !.returncode = r.returncode,
                  !.raised = r.raised]

LogTo(c, level, msg) == [c EXCEPT !.logged = Append(@, LogLine(level, msg))]

WriteFile(c, f, w) ==
    [c EXCEPT !.made = IF w.made THEN @ \cup {f} ELSE @, !.raised = w.exc]

\* --------------------------------------------------------------- main
Invalid_unless_plan(a) ==
    a.infrastructure_only /\ a.application_only /\ ~a.plan_only
Invalid(a) == a.infrastructure_only /\ a.application_only

\* ------------------------------------------------- PythonDeployer.run
AfterInfrastructure_always_build(a) == "build_docker_image"
AfterInfrastructure(a) ==
    IF ~a.infrastructure_only THEN "build_docker_image" ELSE "display_summary"

NextStage_infrastructure_before_tests(stage, a) ==
    CASE stage = "check_prerequisites" ->
             IF ~a.application_only THEN "setup_python_environment"
             ELSE AfterInfrastructure(a)
      [] stage = "setup_python_environment" -> "deploy_infrastructure"
      [] stage = "deploy_infrastructure" -> "run_tests"
      [] stage = "run_tests" -> AfterInfrastructure(a)
      [] stage = "build_docker_image" ->
             IF ~a.plan_only THEN "push_to_registry" ELSE "display_summary"
      [] stage = "push_to_registry" -> "deploy_application"
      [] stage = "deploy_application" -> "health_check"
      [] stage = "health_check" -> "display_summary"
      [] OTHER -> "exited"
NextStage_skips_health_check(stage, a) ==
    CASE stage = "check_prerequisites" ->
             IF ~a.application_only THEN "setup_python_environment"
             ELSE AfterInfrastructure(a)
      [] stage = "setup_python_environment" -> "run_tests"
      [] stage = "run_tests" -> "deploy_infrastructure"
      [] stage = "deploy_infrastructure" -> AfterInfrastructure(a)
      [] stage = "build_docker_image" ->
             IF ~a.plan_only THEN "push_to_registry" ELSE "display_summary"
      [] stage = "push_to_registry" -> "deploy_application"
      [] stage = "deploy_application" -> "display_summary"
      [] stage = "health_check" -> "display_summary"
      [] OTHER -> "exited"
NextStage(stage, a) ==
    CASE stage = "check_prerequisites" ->
             IF ~a.application_only THEN "setup_python_environment"
             ELSE AfterInfrastructure(a)
      [] stage = "setup_python_environment" -> "run_tests"
      [] stage = "run_tests" -> "deploy_infrastructure"
      [] stage = "deploy_infrastructure" -> AfterInfrastructure(a)
      [] stage = "build_docker_image" ->
             IF ~a.plan_only THEN "push_to_registry" ELSE "display_summary"
      [] stage = "push_to_registry" -> "deploy_application"
      [] stage = "deploy_application" -> "health_check"
      [] stage = "health_check" -> "display_summary"
      [] OTHER -> "exited"

StageCheck_ignores_tests(stage, ret) ==
    IF ret = "False" /\ stage # "run_tests" THEN "SystemExit"
    ELSE IF ret \in {"True", "None", "False"} THEN "none"
    ELSE ret
StageCheck_ignores_prerequisites(stage, ret) ==
    IF ret = "False" /\ stage # "check_prerequisites" THEN "SystemExit"
    ELSE IF ret \in {"True", "None", "False"} THEN "none"
    ELSE ret
\* "if not self.<stage>(): sys.exit(1)": what is raised inside the try block
\* once the stage has returned ret or raised ret
StageCheck(stage, ret) ==
    IF ret = "False" THEN "SystemExit"
    ELSE IF ret \in {"True", "None"} THEN "none"
    ELSE ret

ExceptClause_no_interrupt_clause(raised) ==
    IF IsException(raised)
    THEN [logged |-> <<LogLine("ERROR", "Unexpected error")>>,
          escaped |-> "SystemExit", code |-> SysExitCode]
    ELSE [logged |-> <<>>, escaped |-> raised, code |-> SysExitCode]
\* the except clauses of run: what is logged, what leaves run, exit status
ExceptClause(raised) ==
    IF raised = "KeyboardInterrupt"
    THEN [logged |-> <<LogLine("WARNING", "Deployment interrupted by user")>>,
          escaped |-> "SystemExit", code |-> SysExitCode]
    ELSE IF IsException(raised)
    THEN [logged |-> <<LogLine("ERROR", "Unexpected error")>>,
          escaped |-> "SystemExit", code |-> SysExitCode]
    ELSE [logged |-> <<>>, escaped |-> raised, code |-> SysExitCode]

\* the stage has run to its end with context c and returned (or raised) ret
Finish(stage, c, ret0) ==
    LET ret    == IF c.raised # "none" THEN c.raised ELSE ret0
        raised == StageCheck(stage, ret)
        h      == ExceptClause(raised)
        next   == NextStage(stage, args)
    IN  /\ stages' = Append(stages, stage)
        /\ results' = [results EXCEPT ![stage] = ret]
        /\ cmds' = cmds \o c.issued
        /\ found' = found \cup c.seen
        /\ created' = created \cup c.made
        /\ summary_count' = IF stage = "display_summary" /\ ret = "None"
                            THEN summary_count + 1 ELSE summary_count
        /\ IF raised # "none"
           THEN /\ logs' = logs \o c.logged \o h.logged
                /\ pc' = "exited"
                /\ exit_status' = h.code
                /\ escaped' = h.escaped
           ELSE /\ logs' = logs \o c.logged
                /\ pc' = next
                /\ exit_status' = IF next = "exited" THEN 0 ELSE exit_status
                /\ escaped' = escaped
        /\ UNCHANGED <<args, pass, first>>

main ==
    /\ pc = "main"
    /\ IF Invalid(args)
       THEN /\ pc' = "exited"
            /\ exit_status' = ArgparseErrorStatus
            /\ escaped' = "SystemExit"
       ELSE /\ pc' = "check_prerequisites"
            /\ UNCHANGED <<exit_status, escaped>>
    /\ UNCHANGED <<args, found, stages, results, cmds, logs, created,
                   summary_count, pass, first>>

\* ------------------------------------------------- check_prerequisites
required_tools == <<"docker", "aws", "python3", "pip">>

\* the loop over required_tools; acc.missing_tools collects the failures
RECURSIVE for_tool(_, _, _, _)
for_tool(o, i, c, missing_tools) ==
    IF i > Len(required_tools) THEN [c |-> c, missing_tools |-> missing_tools]
    ELSE LET c2 == Call("check_prerequisites", c,
                        <<"which", required_tools[i]>>, o[i])
         IN  IF c2.raised # "none"
             THEN [c |-> c2, missing_tools |-> missing_tools]
             ELSE for_tool(o, i + 1, c2,
                           IF Failed(c2.returncode)
                           THEN Append(missing_tools, required_tools[i])
                           ELSE missing_tools)

\* what the next command may answer after the stage context c: anything in
\* a first invocation; in a second invocation (RunAgain) what the command
\* at the same position answered in the first one, if there was one
CommandOutcomes(c) ==
    IF pass = 1 \/ Len(cmds) + Len(c.issued) + 1 > Len(first.cmds)
    THEN Outcomes
    ELSE {first.cmds[Len(cmds) + Len(c.issued) + 1].outcome}

\* what the four "which" calls may answer: anything in a first invocation;
\* in a second invocation (RunAgain) what they answered in the first one
WhichOutcomes ==
    IF pass = 1 THEN [1..Len(required_tools) -> Outcomes]
    ELSE {[i \in 1..Len(required_tools) |->
             IF i <= Len(first.cmds) THEN first.cmds[i].outcome
             ELSE [exc |-> "none", returncode |-> 0]]}

check_prerequisites ==
    /\ pc = "check_prerequisites"
    /\ \E o \in WhichOutcomes :
         LET s  == "check_prerequisites"
             w  == for_tool(o, 1, ctx0, <<>>)
             c1 == w.c
         IN
         IF c1.raised # "none" THEN Finish(s, c1, "raised")
         ELSE IF w.missing_tools # <<>>
         THEN Finish(s, LogTo(c1, "ERROR", "Missing required tools"), "False")
         ELSE \E o2 \in CommandOutcomes(c1) :
           LET c2 == Call(s, c1, <<"aws", "sts", "get-caller-identity">>, o2)
           IN
           IF c2.raised # "none" THEN Finish(s, c2, "raised")
           ELSE IF Failed(c2.returncode)
           THEN Finish(s, LogTo(c2, "ERROR", "AWS credentials not configured"),
                       "False")
           ELSE \E o3 \in CommandOutcomes(c2) :
             LET c3 == Call(s, c2, <<"docker", "info">>, o3)
             IN
             IF c3.raised # "none" THEN Finish(s, c3, "raised")
             ELSE IF Failed(c3.returncode)
             THEN Finish(s, LogTo(c3, "ERROR", "Docker is not running"),
                         "False")
             ELSE \E present \in BOOLEAN :
             IF ~present
             THEN \E w4 \in FileOutcomes :
                    LET c4 == WriteFile(
                                LogTo(c3, "WARNING",
                                      "requirements.txt not found"),
                                "requirements.txt", w4)
                    IN IF c4.raised # "none" THEN Finish(s, c4, "raised")
                       ELSE Finish(s, LogTo(c4, "SUCCESS",
                                            "All prerequisites met"), "True")
             ELSE Finish(s, LogTo(Seen(c3, {"requirements.txt"}), "SUCCESS",
                               "All prerequisites met"), "True")

\* -------------------------------------------- setup_python_environment
\* the two pip commands, issued once the virtual environment exists
install_dependencies(s, c0) ==
    \E o2 \in CommandOutcomes(c0) :
      LET c2 == Call(s, c0, <<"venv/bin/pip", "install", "--upgrade", "pip">>,
                     o2)
      IN
      IF c2.raised # "none" THEN Finish(s, c2, "raised")
      ELSE IF Failed(c2.returncode)
      THEN Finish(s, LogTo(c2, "ERROR", "Failed to upgrade pip"), "False")
      ELSE \E o3 \in CommandOutcomes(c2) :
        LET c3 == Call(s, c2, <<"venv/bin/pip", "install", "-r",
                                "requirements.txt">>, o3)
        IN
        IF c3.raised # "none" THEN Finish(s, c3, "raised")
        ELSE IF Failed(c3.returncode)
        THEN Finish(s, LogTo(c3, "ERROR", "Failed to install requirements"),
                    "False")
        ELSE Finish(s, LogTo(c3, "SUCCESS", "Python environment configured"),
                    "True")

setup_python_environment ==
    /\ pc = "setup_python_environment"
    /\ \E present \in BOOLEAN :
       LET s == "setup_python_environment"
       IN
       IF ~present
       THEN \E o1 \in CommandOutcomes(ctx0) :
              LET c1 == Call(s, ctx0, <<"python3", "-m", "venv", "venv">>, o1)
              IN
              IF c1.raised # "none" THEN Finish(s, c1, "raised")
              ELSE IF Failed(c1.returncode)
              THEN Finish(s, LogTo(c1, "ERROR",
                                   "Failed to create virtual environment"),
                          "False")
              ELSE \* the collaborator has made the venv directory
                   install_dependencies(s, [c1 EXCEPT !.made = @ \cup {"venv"}])
       ELSE install_dependencies(s, Seen(ctx0, {"venv"}))

\* ------------------------------------------------------------ run_tests
has_tests_negated(f) ==
    ~ (("tests" \in f \/ "test" \in f)
       \/ ("test_app.py" \in f \/ "app_test.py" \in f))
\* any test directory exists, or a test_*.py / *_test.py file is found
has_tests(f) ==
    ("tests" \in f \/ "test" \in f)
    \/ ("test_app.py" \in f \/ "app_test.py" \in f)

run_tests ==
    /\ pc = "run_tests"
    /\ \E T \in TestSets :
       LET s == "run_tests"
           c0 == Seen(ctx0, T)
       IN
       IF ~has_tests(T)
       THEN Finish(s, LogTo(c0, "WARNING", "No tests found"), "True")
       ELSE \E o1 \in CommandOutcomes(c0) :
         LET c1 == Call(s, c0, <<"venv/bin/python", "-m", "pytest",
                                   "--version">>, o1)
         IN
         IF c1.raised # "none" THEN Finish(s, c1, "raised")
         ELSE \E o2 \in CommandOutcomes(c1) :
           LET c2 == IF c1.returncode = 0
                     THEN Call(s, c1, <<"venv/bin/python", "-m", "pytest",
                                        "-v">>, o2)
                     ELSE Call(s, c1, <<"venv/bin/python", "-m", "unittest",
                                        "discover", "-v">>, o2)
           IN
           IF c2.raised # "none" THEN Finish(s, c2, "raised")
           ELSE IF Failed(c2.returncode)
           THEN Finish(s, LogTo(c2, "ERROR", "Tests failed"), "False")
           ELSE Finish(s, LogTo(c2, "SUCCESS", "All tests passed"), "True")

\* ------------------------------------------------- deploy_infrastructure
terraform_command_asks_approval(plan_only) ==
    IF plan_only THEN <<"terraform", "plan">>
    ELSE IF args.auto_approve THEN <<"terraform", "apply", "-auto-approve">>
    ELSE <<"terraform", "apply">>
terraform_command_apply(plan_only) == <<"terraform", "apply", "-auto-approve">>
terraform_command(plan_only) ==
    IF plan_only THEN <<"terraform", "plan">>
    ELSE <<"terraform", "apply", "-auto-approve">>

\* terraform init, then plan or apply, in the terraform directory
terraform_run(s, c0) ==
    \E o1 \in CommandOutcomes(c0) :
      LET c1 == Call(s, c0, <<"terraform", "init">>, o1)
      IN
      IF c1.raised # "none" THEN Finish(s, c1, "raised")
      ELSE IF Failed(c1.returncode)
      THEN Finish(s, LogTo(c1, "ERROR", "Terraform init failed"), "False")
      ELSE \E o2 \in CommandOutcomes(c1) :
        LET c2 == Call(s, c1, terraform_command(args.plan_only), o2)
        IN
        IF c2.raised # "none" THEN Finish(s, c2, "raised")
        ELSE IF Failed(c2.returncode)
        THEN Finish(s, LogTo(c2, "ERROR", "Terraform deployment failed"),
                    "False")
        ELSE Finish(s, LogTo(c2, "SUCCESS",
                             "Infrastructure deployment completed"), "True")

deploy_infrastructure ==
    /\ pc = "deploy_infrastructure"
    /\ \E present \in BOOLEAN :
       LET s == "deploy_infrastructure"
       IN
       IF ~present
       THEN \E w \in FileOutcomes :
              LET c0 == WriteFile(LogTo(ctx0, "WARNING",
                                        "No terraform directory found"),
                                  "terraform", w)
              IN IF c0.raised # "none" THEN Finish(s, c0, "raised")
                 ELSE terraform_run(s, c0)
       ELSE terraform_run(s, Seen(ctx0, {"terraform"}))

\* ---------------------------------------------------- build_docker_image
docker_build(s, c0) ==
    \E o1 \in CommandOutcomes(c0) :
      LET c1 == Call(s, c0, <<"docker", "build", "-t", "image", ".">>, o1)
      IN
      IF c1.raised # "none" THEN Finish(s, c1, "raised")
      ELSE IF Failed(c1.returncode)
      THEN Finish(s, LogTo(c1, "ERROR", "Docker build failed"), "False")
      ELSE Finish(s, LogTo(c1, "SUCCESS", "Docker image built"), "True")

build_docker_image ==
    /\ pc = "build_docker_image"
    /\ \E present \in BOOLEAN :
       LET s == "build_docker_image"
       IN
       IF ~present
       THEN \E w \in FileOutcomes :
              LET c0 == WriteFile(ctx0, "Dockerfile", w)
              IN IF c0.raised # "none" THEN Finish(s, c0, "raised")
                 ELSE docker_build(s, c0)
       ELSE docker_build(s, Seen(ctx0, {"Dockerfile"}))

\* ------------------------------------------------------ push_to_registry
push_to_registry ==
    /\ pc = "push_to_registry"
    /\ \E o1 \in CommandOutcomes(ctx0) :
      LET s  == "push_to_registry"
          c1 == Call(s, ctx0, <<"aws", "ecr", "get-login-password">>, o1)
      IN
      IF c1.raised # "none" THEN Finish(s, c1, "raised")
      ELSE IF Failed(c1.returncode)
      THEN Finish(s, LogTo(c1, "ERROR", "ECR authentication failed"), "False")
      ELSE \E o2 \in CommandOutcomes(c1) :
        LET c2 == Call(s, c1, <<"docker", "tag">>, o2)
        IN
        IF c2.raised # "none" THEN Finish(s, c2, "raised")
        ELSE IF Failed(c2.returncode)
        THEN Finish(s, LogTo(c2, "ERROR", "Docker tag failed"), "False")
        ELSE \E o3 \in CommandOutcomes(c2) :
          LET c3 == Call(s, c2, <<"docker", "push">>, o3)
          IN
          IF c3.raised # "none" THEN Finish(s, c3, "raised")
          ELSE IF Failed(c3.returncode)
          THEN Finish(s, LogTo(c3, "ERROR", "Docker push failed"), "False")
          ELSE Finish(s, LogTo(c3, "SUCCESS", "Image pushed to ECR"), "True")

\* ---------------------------------------------------- deploy_application
deploy_application ==
    /\ pc = "deploy_application"
    /\ Finish("deploy_application",
              LogTo(ctx0, "SUCCESS", "Application deployment completed"),
              "True")

\* ----------------------------------------------------------- health_check
health_check ==
    /\ pc = "health_check"
    /\ \E sl \in SleepOutcomes :
         LET c1 == [ctx0 EXCEPT !.raised = sl]
         IN IF c1.raised # "none"
            THEN Finish("health_check", c1, "raised")
            ELSE Finish("health_check",
                        LogTo(c1, "SUCCESS", "Application is healthy"), "True")

\* -------------------------------------------------------- display_summary
display_summary ==
    /\ pc = "display_summary"
    /\ Finish("display_summary", ctx0, "None")

\* ------------------------------------------------------------- behaviour

Init ==
    /\ args \in Flags
    /\ found = {}
    /\ pc = "main"
    /\ stages = <<>>
    /\ results = [s \in StageNames |-> "not run"]
    /\ cmds = <<>>
    /\ logs = <<>>
    /\ created = {}
    /\ summary_count = 0
    /\ exit_status = -1
    /\ escaped = "none"
    /\ pass = 1
    /\ first = [args |-> args, stages |-> <<>>, cmds |-> <<>>,
                results |-> [s \in StageNames |-> "not run"],
                found |-> {}, created |-> {}, exit_status |-> -1]

Next ==
    \/ main
    \/ check_prerequisites
    \/ setup_python_environment
    \/ run_tests
    \/ deploy_infrastructure
    \/ build_docker_image
    \/ push_to_registry
    \/ deploy_application
    \/ health_check
    \/ display_summary

Spec == Init /\ [][Next]_vars
\* =============================================================== claims
Started(s) == results[s] # "not run"
LastStage == IF stages = <<>> THEN "none" ELSE stages[Len(stages)]
Levels == {logs[i].level : i \in DOMAIN logs}
ReturnedZero(i) == cmds[i].outcome = [exc |-> "none", returncode |-> 0]
NonZero(i) == cmds[i].outcome.exc = "none" /\ cmds[i].outcome.returncode # 0
IsProbe(i) == cmds[i].argv = <<"venv/bin/python", "-m", "pytest", "--version">>
IsUnittest(i) ==
    cmds[i].argv = <<"venv/bin/python", "-m", "unittest", "discover", "-v">>
IsPlan(i) == cmds[i].argv = <<"terraform", "plan">>
IsApply(i) == cmds[i].argv[1] = "terraform" /\ cmds[i].argv[2] = "apply"

\* ------------------------------------------------------------------ C1
\* C1 as stated: with infrastructure-only and application-only both set the
\* program ends before any command is issued and before any stage starts,
\* with exit status 1.
C1_ExitStatusOne ==
    (Invalid(args) /\ pc = "exited")
        => (cmds = <<>> /\ stages = <<>> /\ exit_status = 1)

\* C1 amended: with both mode flags set, whatever the other flags, the
\* program never leaves main, issues no command and starts no stage, and its
\* exit status is 2 (the status of argparse's parser.error), not 1.
C1_InvalidFlagsAbort ==
    (args.infrastructure_only /\ args.application_only)
        => /\ pc \in {"main", "exited"}
           /\ cmds = <<>> /\ stages = <<>> /\ created = {}
           /\ (pc = "exited" => exit_status = 2)

C1_Witness ==
    /\ args.infrastructure_only /\ args.application_only
    /\ args.plan_only /\ args.auto_approve /\ args.verbose
    /\ pc = "exited"

\* ------------------------------------------------------------------ C2
\* C2: once a stage has returned failure the run is over with exit status 1,
\* that stage is the last one started and display_summary was not called;
\* after a failed test stage none of infra, build, push, deploy, health
\* check or summary has run or issued a command.
C2_ShortCircuit ==
    \A s \in StageNames :
        results[s] = "False"
            => /\ pc = "exited" /\ exit_status = 1
               /\ LastStage = s
               /\ summary_count = 0 /\ ~Started("display_summary")
               /\ (s = "run_tests" =>
                     /\ \A t \in StageNames \ {"check_prerequisites",
                               "setup_python_environment", "run_tests"} :
                            ~Started(t)
                     /\ \A i \in DOMAIN cmds :
                            cmds[i].stage \in {"check_prerequisites",
                               "setup_python_environment", "run_tests"})

C2_Witness ==
    /\ results["run_tests"] = "False"
    /\ \E i \in DOMAIN cmds :
          /\ cmds[i].argv = <<"venv/bin/python", "-m", "pytest", "-v">>
          /\ NonZero(i)
    /\ pc = "exited"

\* ------------------------------------------------------------------ C3
StageOrder == <<"check_prerequisites", "setup_python_environment",
                "run_tests", "deploy_infrastructure", "build_docker_image",
                "push_to_registry", "deploy_application", "health_check",
                "display_summary">>
Rank(s) == CHOOSE i \in DOMAIN StageOrder : StageOrder[i] = s

\* C3: the stages started in a run form a subsequence of the fixed order:
\* any two stages started in the same run were started in that order.
C3_FixedOrder ==
    \A i, j \in DOMAIN stages :
        i < j => Rank(stages[i]) < Rank(stages[j])

C3_Witness == Len(stages) = Len(StageOrder) /\ pc = "exited"

\* ------------------------------------------------------------------ C4
\* C4: with plan-only set, push, deploy and health check never run and the
\* infrastructure stage issues terraform plan, never terraform apply;
\* terraform apply is issued only with plan-only unset; at most one of
\* plan/apply is issued per run, directly after a terraform init that
\* returned 0.
C4_PlanOnly ==
    /\ args.plan_only =>
          /\ ~Started("push_to_registry") /\ ~Started("deploy_application")
          /\ ~Started("health_check")
          /\ \A i \in DOMAIN cmds : ~IsApply(i)
          /\ results["deploy_infrastructure"] \in {"True", "False"}
               /\ (\E i \in DOMAIN cmds :
                      cmds[i].argv = <<"terraform", "init">> /\ ReturnedZero(i))
               => \E i \in DOMAIN cmds : IsPlan(i)
    /\ (\E i \in DOMAIN cmds : IsApply(i)) => ~args.plan_only
    /\ Cardinality({i \in DOMAIN cmds : IsPlan(i) \/ IsApply(i)}) <= 1
    /\ \A i \in DOMAIN cmds :
          (IsPlan(i) \/ IsApply(i))
             => /\ i > 1
                /\ cmds[i - 1].argv = <<"terraform", "init">>
                /\ ReturnedZero(i - 1)

C4_Witness ==
    /\ args.plan_only
    /\ \E i \in DOMAIN cmds : IsPlan(i) /\ ReturnedZero(i)
    /\ Started("build_docker_image")
    /\ pc = "exited" /\ exit_status = 0

\* ------------------------------------------------------------------ C5
InfrastructureStages == {"setup_python_environment", "run_tests",
                         "deploy_infrastructure"}
ApplicationStages == {"build_docker_image", "push_to_registry",
                      "deploy_application", "health_check"}
NoStageFailed == pc = "exited" /\ exit_status = 0

\* C5 as stated: in a run without failure, infrastructure-only runs setup,
\* tests and infra and none of build, push, deploy, health check, and
\* application-only runs build, push, deploy and health check and none of
\* setup, tests, infra.
C5_MirrorImage ==
    NoStageFailed =>
       /\ args.infrastructure_only =>
             /\ \A s \in InfrastructureStages : Started(s)
             /\ \A s \in ApplicationStages : ~Started(s)
       /\ args.application_only =>
             /\ \A s \in ApplicationStages : Started(s)
             /\ \A s \in InfrastructureStages : ~Started(s)

\* C5 amended: with infrastructure-only set, build, push, deploy and health
\* check never run, and a run without failure has run setup, tests and
\* infra; with application-only set, setup, tests and infra never run, and
\* a run without failure has run build, and has run push, deploy and health
\* check exactly when plan-only is unset.
C5_StageMembership ==
    /\ args.infrastructure_only =>
          /\ \A s \in ApplicationStages : ~Started(s)
          /\ NoStageFailed => \A s \in InfrastructureStages : Started(s)
    /\ args.application_only =>
          /\ \A s \in InfrastructureStages : ~Started(s)
          /\ NoStageFailed =>
                /\ Started("build_docker_image")
                /\ \A s \in ApplicationStages \ {"build_docker_image"} :
                      Started(s) <=> ~args.plan_only

C5_Witness ==
    /\ args.application_only /\ args.plan_only
    /\ Started("build_docker_image")
    /\ NoStageFailed
\* ------------------------------------------------------------------ C6
\* the stages the flags select (summary aside)
Selected(a) ==
    {"check_prerequisites"}
    \cup (IF ~a.application_only THEN InfrastructureStages ELSE {})
    \cup (IF ~a.infrastructure_only
          THEN {"build_docker_image"}
               \cup (IF ~a.plan_only
                     THEN {"push_to_registry", "deploy_application",
                           "health_check"}
                     ELSE {})
          ELSE {})

\* C6: for a valid configuration the run ends with exit status 0 exactly
\* when every selected stage returned success; display_summary is called
\* exactly in those runs, once and after all other stages.  Without mode
\* flags a successful run is the full sequence with terraform apply; with
\* only plan-only it is prerequisites, setup, tests, infra (terraform plan),
\* build, summary.
C6_ExitZeroIffAllSucceeded ==
    /\ summary_count <= 1
    /\ Started("display_summary") =>
          /\ LastStage = "display_summary" /\ summary_count = 1
          /\ pc = "exited"
    /\ (pc = "exited" /\ ~(args.infrastructure_only /\ args.application_only))
         => /\ exit_status = 0
                <=> \A s \in Selected(args) : results[s] = "True"
            /\ summary_count = 1 <=> exit_status = 0
            /\ exit_status = 0 =>
                  stages = SelectSeq(StageOrder,
                             LAMBDA s : s \in Selected(args)
                                           \cup {"display_summary"})
            /\ (exit_status = 0 /\ ~args.infrastructure_only
                  /\ ~args.application_only /\ ~args.plan_only)
                 => /\ stages = StageOrder
                    /\ \E i \in DOMAIN cmds : IsApply(i) /\ ReturnedZero(i)
            /\ (exit_status = 0 /\ ~args.infrastructure_only
                  /\ ~args.application_only /\ args.plan_only)
                 => /\ stages = <<"check_prerequisites",
                                  "setup_python_environment", "run_tests",
                                  "deploy_infrastructure",
                                  "build_docker_image", "display_summary">>
                    /\ \E i \in DOMAIN cmds : IsPlan(i) /\ ReturnedZero(i)

C6_Witness ==
    /\ ~args.infrastructure_only /\ ~args.application_only /\ ~args.plan_only
    /\ \A i \in DOMAIN cmds : ReturnedZero(i)
    /\ summary_count = 1
    /\ pc = "exited" /\ exit_status = 0

\* ------------------------------------------------------------------ C7
\* C7 as stated: whenever a command issued through run_command returned a
\* non-zero status, its stage did not succeed (it returned failure, or was
\* interrupted before returning) and the run ended with exit status 1.
C7_EveryNonZeroFails ==
    \A i \in DOMAIN cmds :
        NonZero(i) => /\ results[cmds[i].stage] \in {"False",
                                                     "KeyboardInterrupt"}
                      /\ pc = "exited" /\ exit_status = 1

\* C7 amended: a non-zero status of any command other than the pytest
\* availability probe ends the run with exit status 1, the enclosing stage
\* returning failure (or, in the prerequisite tool loop, being interrupted
\* by the user before it returns); a non-zero status of the probe does not
\* fail the stage: it makes the stage run the unittest runner, never pytest.
C7_NonZeroFailsExceptProbe ==
    \A i \in DOMAIN cmds :
        /\ (NonZero(i) /\ ~IsProbe(i)) =>
              /\ pc = "exited" /\ exit_status = 1
              /\ LastStage = cmds[i].stage
              /\ \/ results[cmds[i].stage] = "False"
                 \/ /\ cmds[i].argv[1] = "which"
                    /\ results[cmds[i].stage] = "KeyboardInterrupt"
        /\ (NonZero(i) /\ IsProbe(i)) =>
              /\ i + 1 \in DOMAIN cmds /\ IsUnittest(i + 1)
              /\ ReturnedZero(i + 1) => results["run_tests"] = "True"

C7_Witness ==
    /\ \E i \in DOMAIN cmds : NonZero(i) /\ IsProbe(i)
    /\ \E i \in DOMAIN cmds : NonZero(i) /\ cmds[i].argv = <<"docker", "push">>
    /\ pc = "exited"

\* ------------------------------------------------------------------ C8
Interrupted(s) ==
    \/ results[s] = "KeyboardInterrupt"
    \/ \E i \in DOMAIN cmds :
          cmds[i].stage = s /\ cmds[i].outcome.exc = "KeyboardInterrupt"
Threw(s) ==
    \/ results[s] = "OSError"
    \/ \E i \in DOMAIN cmds : cmds[i].stage = s /\ cmds[i].outcome.exc = "OSError"
ThrewOutsideProbe(s) ==
    \/ results[s] = "OSError"
    \/ \E i \in DOMAIN cmds :
          cmds[i].stage = s /\ cmds[i].outcome.exc = "OSError" /\ ~IsProbe(i)

\* C8 as stated: an interruption or an unexpected exception in any stage
\* ends the run with exit status 1, with no later stage and no summary; the
\* interruption logs a WARNING, the exception an ERROR, and only the process
\* exit leaves run.
C8_EveryExceptionEndsRun ==
    /\ escaped \in {"none", "SystemExit"}
    /\ \A s \in StageNames :
          /\ (Interrupted(s) \/ Threw(s)) =>
                /\ pc = "exited" /\ exit_status = 1
                /\ LastStage = s /\ summary_count = 0
          /\ Interrupted(s) => "WARNING" \in Levels
          /\ Threw(s) => "ERROR" \in Levels

\* C8 amended: as stated, except for an exception raised when the pytest
\* availability probe is launched: run_command logs it as an ERROR and
\* reports status 1, the test stage then runs the unittest runner, and the
\* run goes on if that runner returns 0.
C8_ExceptionEndsRunExceptProbe ==
    /\ escaped \in {"none", "SystemExit"}
    /\ pc = "exited" => escaped = "SystemExit" \/ exit_status = 0
    /\ \A s \in StageNames :
          /\ (Interrupted(s) \/ ThrewOutsideProbe(s)) =>
                /\ pc = "exited" /\ exit_status = 1
                /\ escaped = "SystemExit"
                /\ LastStage = s /\ summary_count = 0
                /\ ~Started("display_summary")
          /\ Interrupted(s) =>
                logs[Len(logs)] =
                    LogLine("WARNING", "Deployment interrupted by user")
          /\ Threw(s) => "ERROR" \in Levels
    /\ \A i \in DOMAIN cmds :
          (IsProbe(i) /\ cmds[i].outcome.exc = "OSError") =>
              /\ i + 1 \in DOMAIN cmds /\ IsUnittest(i + 1)
              /\ ReturnedZero(i + 1) => results["run_tests"] = "True"

C8_Witness ==
    /\ \E i \in DOMAIN cmds : IsProbe(i) /\ cmds[i].outcome.exc = "OSError"
    /\ results["build_docker_image"] = "OSError"
    /\ pc = "exited"

\* ------------------------------------------------------------------ C9
\* C9: when check_prerequisites returned failure the run is over with exit
\* status 1, no artifact was created and every command issued belongs to
\* the prerequisite check; requirements.txt is created only after the four
\* tool checks, the credential check and the Docker check all returned 0.
C9_PrerequisiteFailureBeforeMutation ==
    /\ results["check_prerequisites"] = "False" =>
          /\ pc = "exited" /\ exit_status = 1
          /\ created = {}
          /\ stages = <<"check_prerequisites">>
          /\ \A i \in DOMAIN cmds : cmds[i].stage = "check_prerequisites"
          /\ \E i \in DOMAIN cmds : cmds[i].outcome # [exc |-> "none",
                                                       returncode |-> 0]
    /\ "requirements.txt" \in created =>
          /\ Len(cmds) >= 6
          /\ \A i \in 1..6 : /\ cmds[i].stage = "check_prerequisites"
                             /\ ReturnedZero(i)
          /\ \A i \in 1..4 : cmds[i].argv = <<"which", required_tools[i]>>
          /\ cmds[5].argv = <<"aws", "sts", "get-caller-identity">>
          /\ cmds[6].argv = <<"docker", "info">>

C9_Witness ==
    /\ results["check_prerequisites"] = "False"
    /\ \E i \in DOMAIN cmds : cmds[i].argv = <<"docker", "info">> /\ NonZero(i)
    /\ pc = "exited"

\* ----------------------------------------------------------------- C10
NoTestsDiscoverable == found \cap TestArtifacts = {}

\* C10: when the test stage ran and found no test directory and no test
\* file, it issued no command, logged a warning and returned success, and
\* the run went on to infrastructure provisioning instead of exiting.
C10_NoTestsIsSuccess ==
    (Started("run_tests") /\ NoTestsDiscoverable) =>
        /\ results["run_tests"] = "True"
        /\ \A i \in DOMAIN cmds : cmds[i].stage # "run_tests"
        /\ LogLine("WARNING", "No tests found") \in {logs[i] : i \in DOMAIN logs}
        /\ \/ LastStage = "run_tests" /\ pc = "deploy_infrastructure"
           \/ \E i \in DOMAIN stages :
                 /\ stages[i] = "run_tests"
                 /\ i + 1 \in DOMAIN stages
                 /\ stages[i + 1] = "deploy_infrastructure"

C10_Witness ==
    /\ Started("run_tests") /\ NoTestsDiscoverable
    /\ Started("deploy_infrastructure")
    /\ pc = "exited" /\ exit_status = 0
\* ----------------------------------------------------------------- C11
\* the external tool a command line starts: the virtual environment's pip
\* and python are the pip and python3 the prerequisite check looked for
ToolOf(argv) ==
    CASE argv[1] = "venv/bin/pip" -> "pip"
      [] argv[1] = "venv/bin/python" -> "python3"
      [] OTHER -> argv[1]
VerifiedTools == {required_tools[i] : i \in DOMAIN required_tools}

\* C11: once check_prerequisites has returned success, every external tool
\* a later stage invokes is one of the tools whose presence the check
\* verified.
C11_EveryToolVerified ==
    results["check_prerequisites"] = "True" =>
        \A i \in DOMAIN cmds :
            cmds[i].stage # "check_prerequisites"
                => ToolOf(cmds[i].argv) \in VerifiedTools
\* ------------------------------------------------------ two invocations
\* the stage in which the run looks an artifact up or creates it
StageOfArtifact(f) ==
    CASE f = "requirements.txt" -> "check_prerequisites"
      [] f = "venv" -> "setup_python_environment"
      [] f = "terraform" -> "deploy_infrastructure"
      [] f = "Dockerfile" -> "build_docker_image"
      [] OTHER -> "run_tests"
Artifacts == {"requirements.txt", "venv", "terraform", "Dockerfile"}
                 \cup TestArtifacts

\* the environment answers this invocation as it answered the first one:
\* the k-th command has the same outcome, and in every stage both
\* invocations ran, the same artifacts were present, the same file
\* creations succeeded and the same file error or interruption of sleep hit
SameCollaboratorResults ==
    pass = 2 =>
       /\ \A i \in DOMAIN cmds \cap DOMAIN first.cmds :
             cmds[i].outcome = first.cmds[i].outcome
       /\ \A f \in Artifacts :
             (results[StageOfArtifact(f)] # "not run"
                /\ first.results[StageOfArtifact(f)] # "not run")
               => /\ f \in found <=> f \in first.found
                  /\ f \in created <=> f \in first.created
       /\ \A s \in StageNames :
             (results[s] # "not run" /\ first.results[s] # "not run")
               => /\ results[s] = "OSError" <=> first.results[s] = "OSError"
                  /\ (s = "health_check" =>
                        (results[s] = "KeyboardInterrupt"
                           <=> first.results[s] = "KeyboardInterrupt"))

\* the program is invoked a second time, with a configuration that differs
\* from the first one in auto-approve and/or verbose only.  The first
\* invocation is the one with both flags unset: two configurations that
\* differ only in these flags are both compared with it.
RunAgain ==
    /\ pass = 1
    /\ pc = "exited"
    /\ ~args.auto_approve /\ ~args.verbose
    /\ \E a \in Flags :
          /\ a # args
          /\ a.plan_only = args.plan_only
          /\ a.infrastructure_only = args.infrastructure_only
          /\ a.application_only = args.application_only
          /\ args' = a
    /\ first' = [args |-> args, stages |-> stages, cmds |-> cmds,
                 results |-> results, found |-> found, created |-> created,
                 exit_status |-> exit_status]
    /\ pass' = 2
    /\ pc' = "main"
    /\ stages' = <<>>
    /\ results' = [s \in StageNames |-> "not run"]
    /\ cmds' = <<>>
    /\ logs' = <<>>
    /\ found' = {}
    /\ created' = {}
    /\ summary_count' = 0
    /\ exit_status' = -1
    /\ escaped' = "none"

NextPair ==
    \/ main /\ SameCollaboratorResults'
    \/ check_prerequisites /\ SameCollaboratorResults'
    \/ setup_python_environment /\ SameCollaboratorResults'
    \/ run_tests /\ SameCollaboratorResults'
    \/ deploy_infrastructure /\ SameCollaboratorResults'
    \/ build_docker_image /\ SameCollaboratorResults'
    \/ push_to_registry /\ SameCollaboratorResults'
    \/ deploy_application /\ SameCollaboratorResults'
    \/ health_check /\ SameCollaboratorResults'
    \/ display_summary /\ SameCollaboratorResults'
    \/ RunAgain

SpecPair == Init /\ [][NextPair]_vars

\* ----------------------------------------------------------------- C12
Argv(c) == [i \in DOMAIN c |-> c[i].argv]
IsPrefix(p, q) == Len(p) <= Len(q) /\ \A i \in DOMAIN p : p[i] = q[i]

\* C12: of two invocations whose configurations differ only in auto-approve
\* and/or verbose and whose collaborators return the same results, the
\* second starts the same stages and issues the same commands in the same
\* order as the first (terraform apply carrying -auto-approve in both), and
\* ends with the same exit status.
C12_FlagsDoNotInfluenceWorkflow ==
    (pass = 2 /\ SameCollaboratorResults) =>
       /\ IsPrefix(stages, first.stages)
       /\ IsPrefix(Argv(cmds), Argv(first.cmds))
       /\ \A i \in DOMAIN cmds :
             IsApply(i) => cmds[i].argv = <<"terraform", "apply",
                                            "-auto-approve">>
       /\ pc = "exited" =>
             /\ stages = first.stages
             /\ Argv(cmds) = Argv(first.cmds)
             /\ exit_status = first.exit_status

C12_Witness ==
    /\ pass = 2 /\ pc = "exited"
    /\ ~first.args.auto_approve /\ args.auto_approve
    /\ first.args.verbose # args.verbose
    /\ \E i \in DOMAIN cmds : IsApply(i) /\ ReturnedZero(i)
    /\ \E i \in DOMAIN first.cmds :
          first.cmds[i].argv = <<"terraform", "apply", "-auto-approve">>
    /\ exit_status = 0
====
